---- MODULE Spec2Model ----
(***************************************************************************)
(* Model of the admin panel of didierdrin/giodashboard:                    *)
(*   - Settings.tsx: the adminPhoneGio collection (add, activate, remove), *)
(*     seen by several administrators, each through its own live view;     *)
(*   - the Library screen (beats): handleAddBeat and handleDeleteBeat.     *)
(***************************************************************************)
EXTENDS Integers, FiniteSets, Sequences, TLC

\* Bounds of the model.
NumClients == 2
MaxIds == 2
MaxOps == 4
MaxBeats == 1

Clients == 1..NumClients
Ids == 1..MaxIds

Null == 0

\* Text typed into the phone-number field, as sequences of characters.
InputStrings ==
    { <<>>, <<" ">>, <<"7">>, <<" ", "7", " ">> }

IsSpace(ch) == ch = " "

RECURSIVE TrimStart(_)
TrimStart(s) ==
    IF s = <<>> THEN s
    ELSE IF IsSpace(Head(s)) THEN TrimStart(Tail(s)) ELSE s

RECURSIVE TrimEnd(_)
TrimEnd(s) ==
    IF s = <<>> THEN s
    ELSE IF IsSpace(s[Len(s)]) THEN TrimEnd(SubSeq(s, 1, Len(s) - 1)) ELSE s

\* String.prototype.trim
Trim(s) == TrimEnd(TrimStart(s))

ErrAdd == "Error adding phone number:"
ErrToggle == "Error updating phone number status:"
ErrDelete == "Error deleting phone number:"
ErrAddBeat == "Error adding beat: "
ErrDeleteBeat == "Error deleting beat: "
AlertSignIn == "Please sign in to upload beats"
AlertFields == "Please fill in all required fields and upload an audio file"
AlertAddBeat == "Failed to add beat"
AlertDeleteBeat == "Failed to delete beat"

VARIABLES
    docs,          \* the stored adminPhoneGio collection: id -> [number, isActive]
    nextId,        \* the next document id the store hands out
    phoneNumbers,  \* per client: the local view set by the last snapshot
    status,        \* per client, its handleToggleActive call:
                   \*   "idle", "awaiting", "caught", "resolved" or "failed"
    target,        \* per client: phoneId of that call
    issued,        \* per client: the updateDoc writes the call issued
    pending,       \* per client: those not yet settled
    applied,       \* per client: those that succeeded
    existing,      \* per client: the ids stored when the call was issued
    before,        \* per client: the ids active in the store when it was issued
    clean,         \* per client: the view was current at issue and nobody else wrote since
    serial,        \* no activate so far overlapped another, used a stale view or lost a write
    ops,           \* handler invocations of the Settings screen so far
    beats,         \* the stored beats collection: id -> document
    beatsView,     \* the Library screen's local view of it
    beatPc,        \* where handleAddBeat is: "idle", "audio", "preview", "cover",
                   \*   "addDoc" or "updateDoc"
    loading,       \* the loading flag of the Library screen
    req,           \* the form handleAddBeat runs with, or was just refused with
    blobs,         \* the files in blob storage
    started,       \* handleAddBeat runs that passed the precondition checks
    submitted,     \* the last step was a submit of the beat form
    last           \* what the last step logged, showed, saw rejected, created, removed

phoneVars ==
    << docs, nextId, phoneNumbers, status, target, issued, pending, applied,
       existing, before, clean, serial, ops >>

beatVars == << beats, beatsView, beatPc, loading, req, blobs, started, submitted >>

vars == << phoneVars, beatVars, last >>

EmptyDocs == [i \in {} |-> Null]

Quiet == [log |-> "", alert |-> "", rejected |-> "", created |-> Null, removed |-> Null]

\* The step saw a write rejected and ran the catch block given.
Failure(kind, catch) ==
    [Quiet EXCEPT !.rejected = kind, !.log = catch.log, !.alert = catch.alert]

ActiveIds(d) == { i \in DOMAIN d : d[i].isActive }

Quiescent == \A c \in Clients : pending[c] = {}

\* A call whose writes have all settled.
Settled(c) == status[c] \in {"resolved", "failed"}

\* A settled call returns before any handler starts or any snapshot arrives;
\* a client starts a handler only when its previous one has no write outstanding.
Ready(c) ==
    /\ \A c2 \in Clients : ~Settled(c2)
    /\ status[c] = "idle"
    /\ ops < MaxOps

\* A change of the stored collection ends the clean run of every other client.
Disturb(c) ==
    clean' = [c2 \in Clients |->
                IF c2 = c THEN clean[c] ELSE clean[c2] /\ docs' = docs]

\* What handleAddBeat requires: a signed-in user and the four required fields.
Complete(f) == f.user /\ f.audioFile /\ f.title /\ f.genre /\ f.producerName

\* The submitted forms: every combination of what is required; the optional
\* files, which the checks do not read, vary for the forms that pass them.
BeatForms ==
    { f \in [user : BOOLEAN, audioFile : BOOLEAN, title : BOOLEAN, genre : BOOLEAN,
             producerName : BOOLEAN, previewFile : BOOLEAN, imageFile : BOOLEAN] :
        Complete(f) \/ (~f.previewFile /\ ~f.imageFile) }

NoForm ==
    [user |-> FALSE, audioFile |-> FALSE, title |-> FALSE, genre |-> FALSE,
     producerName |-> FALSE, previewFile |-> FALSE, imageFile |-> FALSE]

Init ==
    /\ docs = EmptyDocs
    /\ nextId = 1
    /\ phoneNumbers = [c \in Clients |-> EmptyDocs]
    /\ status = [c \in Clients |-> "idle"]
    /\ target = [c \in Clients |-> Null]
    /\ issued = [c \in Clients |-> {}]
    /\ pending = [c \in Clients |-> {}]
    /\ applied = [c \in Clients |-> {}]
    /\ existing = [c \in Clients |-> {}]
    /\ before = [c \in Clients |-> {}]
    /\ clean = [c \in Clients |-> FALSE]
    /\ serial = TRUE
    /\ ops = 0
    /\ beats = EmptyDocs
    /\ beatsView = EmptyDocs
    /\ beatPc = "idle"
    /\ loading = FALSE
    /\ req = NoForm
    /\ blobs = {}
    /\ started = 0
    /\ submitted = FALSE
    /\ last = Quiet

(***************************************************************************)
(* Settings.tsx                                                            *)
(***************************************************************************)

\* Faulty variant: the callback merges the changed documents into the view and
\* keeps the documents the snapshot no longer holds.
SnapshotMerge(c) ==
    /\ \A c2 \in Clients : ~Settled(c2)
    /\ phoneNumbers[c] # docs
    /\ phoneNumbers' = [phoneNumbers EXCEPT ![c] =
            [i \in DOMAIN docs \cup DOMAIN phoneNumbers[c] |->
                IF i \in DOMAIN docs THEN docs[i] ELSE phoneNumbers[c][i]]]
    /\ last' = Quiet
    /\ UNCHANGED << docs, nextId, status, target, issued, pending, applied,
                    existing, before, clean, serial, ops >>
    /\ UNCHANGED beatVars

\* onSnapshot callback: the local view is replaced by the full current collection.
Snapshot(c) ==
    /\ \A c2 \in Clients : ~Settled(c2)
    /\ phoneNumbers[c] # docs
    /\ phoneNumbers' = [phoneNumbers EXCEPT ![c] = docs]
    /\ last' = Quiet
    /\ UNCHANGED << docs, nextId, status, target, issued, pending, applied,
                    existing, before, clean, serial, ops >>
    /\ UNCHANGED beatVars

\* Faulty variant: the number is created active.
NewPhoneDocActive(s) == [number |-> Trim(s), isActive |-> TRUE]

\* The document handleAddPhoneNumber creates.
NewPhoneDoc(s) == [number |-> Trim(s), isActive |-> FALSE]

\* The catch block of handleAddPhoneNumber.
AddPhoneCatch == [log |-> ErrAdd, alert |-> ""]

HandleAddPhoneNumber(c, s) ==
    /\ Ready(c)
    /\ nextId <= MaxIds
    /\ IF Trim(s) = <<>>
       THEN UNCHANGED << phoneVars, last >>
       ELSE /\ \/ /\ docs' = docs @@ (nextId :> NewPhoneDoc(s))
                  /\ nextId' = nextId + 1
                  /\ last' = [Quiet EXCEPT !.created = nextId]
               \/ /\ last' = Failure("addPhone", AddPhoneCatch)
                  /\ UNCHANGED << docs, nextId >>
            /\ ops' = ops + 1
            /\ Disturb(c)
            /\ UNCHANGED << phoneNumbers, status, target, issued, pending,
                            applied, existing, before, serial >>
    /\ UNCHANGED beatVars

\* Faulty variant: only the target is written, nothing is deactivated.
ToggleWritesNoDeactivate(view, phoneId) ==
    { [id |-> i, isActive |-> TRUE] : i \in { j \in DOMAIN view : j = phoneId } }

\* Faulty variant: the test of the else branch is inverted.
ToggleWritesInverted(view, phoneId) ==
    { [id |-> i, isActive |-> TRUE] : i \in { j \in DOMAIN view : j = phoneId } }
    \cup
    { [id |-> i, isActive |-> FALSE] :
        i \in { j \in DOMAIN view : j # phoneId /\ ~view[j].isActive } }

\* Faulty variant: every other number is written inactive, whatever the view says.
ToggleWritesAllOthers(view, phoneId) ==
    { [id |-> i, isActive |-> TRUE] : i \in { j \in DOMAIN view : j = phoneId } }
    \cup
    { [id |-> i, isActive |-> FALSE] : i \in { j \in DOMAIN view : j # phoneId } }

\* Faulty variant: the target's flag is flipped instead of set.
ToggleWritesFlip(view, phoneId) ==
    { [id |-> i, isActive |-> ~view[i].isActive] :
        i \in { j \in DOMAIN view : j = phoneId } }
    \cup
    { [id |-> i, isActive |-> FALSE] :
        i \in { j \in DOMAIN view : j # phoneId /\ view[j].isActive } }

\* The updateDoc calls handleToggleActive issues, from the local view.
ToggleWrites(view, phoneId) ==
    { [id |-> i, isActive |-> TRUE] : i \in { j \in DOMAIN view : j = phoneId } }
    \cup
    { [id |-> i, isActive |-> FALSE] :
        i \in { j \in DOMAIN view : j # phoneId /\ view[j].isActive } }

OtherActivateRunning(c) == \E c2 \in Clients \ {c} : pending[c2] # {}

\* The button that calls it is rendered from the local view, so phoneId is in it.
HandleToggleActive(c, phoneId) ==
    /\ Ready(c)
    /\ phoneId \in DOMAIN phoneNumbers[c]
    /\ target' = [target EXCEPT ![c] = phoneId]
    /\ issued' = [issued EXCEPT ![c] = ToggleWrites(phoneNumbers[c], phoneId)]
    /\ pending' = [pending EXCEPT ![c] = ToggleWrites(phoneNumbers[c], phoneId)]
    /\ applied' = [applied EXCEPT ![c] = {}]
    /\ existing' = [existing EXCEPT ![c] = DOMAIN docs]
    /\ before' = [before EXCEPT ![c] = ActiveIds(docs)]
    /\ status' = [status EXCEPT ![c] = "awaiting"]
    /\ clean' = [clean EXCEPT ![c] = (phoneNumbers[c] = docs)]
    /\ serial' = (serial /\ phoneNumbers[c] = docs /\ ~OtherActivateRunning(c))
    /\ ops' = ops + 1
    /\ last' = Quiet
    /\ UNCHANGED << docs, nextId, phoneNumbers >>
    /\ UNCHANGED beatVars

\* Faulty variant: the write is accepted for a missing document too.
UpdateDocAlways(d, id) == TRUE

\* updateDoc succeeds only on a document that exists.
UpdateDocOk(d, id) == id \in DOMAIN d

\* updateDoc(doc(db, 'adminPhoneGio', id), { isActive }).
UpdateDoc(d, w) ==
    [i \in DOMAIN d |->
        IF i = w.id THEN [d[i] EXCEPT !.isActive = w.isActive] ELSE d[i]]

\* One updateDoc of client c is applied by the store and its promise resolves;
\* with the last one Promise.all resolves and the handler returns.
WriteApplied(c, w) ==
    /\ w \in pending[c]
    /\ UpdateDocOk(docs, w.id)
    /\ docs' = UpdateDoc(docs, w)
    /\ pending' = [pending EXCEPT ![c] = pending[c] \ {w}]
    /\ applied' = [applied EXCEPT ![c] = applied[c] \cup {w}]
    /\ status' = [status EXCEPT ![c] =
                    IF pending[c] # {w} THEN status[c]
                    ELSE IF status[c] = "awaiting" THEN "resolved" ELSE "failed"]
    /\ Disturb(c)
    /\ last' = Quiet
    /\ UNCHANGED << nextId, phoneNumbers, target, issued, existing, before,
                    serial, ops >>
    /\ UNCHANGED beatVars

\* Faulty variant: the catch block is empty.
ToggleCatchEmpty == [log |-> "", alert |-> ""]

\* The catch block of handleToggleActive.
ToggleCatch == [log |-> ErrToggle, alert |-> ""]

\* Faulty variant: a rejected write is swallowed, the call goes on as if it had succeeded.
WriteRejectedSwallowed(c, w) ==
    /\ w \in pending[c]
    /\ pending' = [pending EXCEPT ![c] = pending[c] \ {w}]
    /\ status' = [status EXCEPT ![c] =
                    IF pending[c] # {w} THEN status[c]
                    ELSE IF status[c] = "awaiting" THEN "resolved" ELSE "failed"]
    /\ last' = [Quiet EXCEPT !.rejected = "togglePhone"]
    /\ serial' = FALSE
    /\ UNCHANGED << docs, nextId, phoneNumbers, target, issued, applied,
                    existing, before, clean, ops >>
    /\ UNCHANGED beatVars

\* One updateDoc of client c is rejected: the document is gone, or the backend
\* refuses the write.  The first rejection rejects Promise.all and runs the
\* catch block; the other writes stay in flight and settle unobserved.
WriteRejected(c, w) ==
    /\ w \in pending[c]
    /\ pending' = [pending EXCEPT ![c] = pending[c] \ {w}]
    /\ status' = [status EXCEPT ![c] =
                    IF pending[c] = {w} THEN "failed" ELSE "caught"]
    /\ last' = IF status[c] = "awaiting"
               THEN Failure("togglePhone", ToggleCatch)
               ELSE [Quiet EXCEPT !.rejected = "togglePhone"]
    /\ serial' = FALSE
    /\ UNCHANGED << docs, nextId, phoneNumbers, target, issued, applied,
                    existing, before, clean, ops >>
    /\ UNCHANGED beatVars

\* handleToggleActive is over and all its writes have settled.
Return(c) ==
    /\ Settled(c)
    /\ status' = [status EXCEPT ![c] = "idle"]
    /\ target' = [target EXCEPT ![c] = Null]
    /\ issued' = [issued EXCEPT ![c] = {}]
    /\ applied' = [applied EXCEPT ![c] = {}]
    /\ existing' = [existing EXCEPT ![c] = {}]
    /\ before' = [before EXCEPT ![c] = {}]
    /\ clean' = [clean EXCEPT ![c] = FALSE]
    /\ last' = Quiet
    /\ UNCHANGED << docs, nextId, phoneNumbers, pending, serial, ops >>
    /\ UNCHANGED beatVars

\* Faulty variant: deleting a number deactivates the others.
DeleteDocCascade(d, id) ==
    [i \in DOMAIN d \ {id} |-> [d[i] EXCEPT !.isActive = FALSE]]

\* deleteDoc: the collection without the document (deleting a missing one succeeds).
DeleteDoc(d, id) == [i \in DOMAIN d \ {id} |-> d[i]]

\* The catch block of handleDeletePhoneNumber.
DeletePhoneCatch == [log |-> ErrDelete, alert |-> ""]

\* phoneId is deleteDialog.phoneId: Null, or an id handleOpenDeleteDialog took
\* from a view this client once had.
HandleDeletePhoneNumber(c, phoneId) ==
    /\ Ready(c)
    /\ phoneId = Null \/ phoneId < nextId
    /\ IF phoneId = Null
       THEN UNCHANGED << phoneVars, last >>
       ELSE /\ \/ /\ docs' = DeleteDoc(docs, phoneId)
                  /\ last' = [Quiet EXCEPT !.removed = phoneId]
               \/ /\ last' = Failure("deletePhone", DeletePhoneCatch)
                  /\ UNCHANGED docs
            /\ ops' = ops + 1
            /\ Disturb(c)
            /\ UNCHANGED << nextId, phoneNumbers, status, target, issued,
                            pending, applied, existing, before, serial >>
    /\ UNCHANGED beatVars

Writes == [id : Ids, isActive : BOOLEAN]

(***************************************************************************)
(* The Library screen                                                      *)
(***************************************************************************)

\* The form of the handleAddBeat call in progress, if there is one.
Running(f) == IF beatPc = "idle" THEN NoForm ELSE f

\* onSnapshot callback on the beats collection.
BeatSnapshot ==
    /\ beatsView # beats
    /\ beatsView' = beats
    /\ submitted' = FALSE
    /\ req' = Running(req)
    /\ last' = Quiet
    /\ UNCHANGED << beats, beatPc, loading, blobs, started >>
    /\ UNCHANGED phoneVars

\* Faulty variant: the producer name is not checked.
BeatPreconditionNoProducer(f) ==
    IF ~f.user THEN AlertSignIn
    ELSE IF ~f.audioFile \/ ~f.title \/ ~f.genre THEN AlertFields
    ELSE ""

\* The two checks handleAddBeat makes before it writes: the alert, "" when none.
BeatPrecondition(f) ==
    IF ~f.user THEN AlertSignIn
    ELSE IF ~f.audioFile \/ ~f.title \/ ~f.genre \/ ~f.producerName THEN AlertFields
    ELSE ""

\* The submit button is disabled while loading.
HandleAddBeat(f) ==
    /\ beatPc = "idle"
    /\ ~loading
    /\ BeatPrecondition(f) # "" \/ started < MaxBeats
    /\ req' = f
    /\ submitted' = TRUE
    /\ IF BeatPrecondition(f) # ""
       THEN /\ last' = [Quiet EXCEPT !.alert = BeatPrecondition(f)]
            /\ UNCHANGED << beats, beatsView, beatPc, loading, blobs, started >>
       ELSE /\ loading' = TRUE
            /\ beatPc' = "audio"
            /\ started' = started + 1
            /\ last' = Quiet
            /\ UNCHANGED << beats, beatsView, blobs >>
    /\ UNCHANGED phoneVars

\* Faulty variant: the document is created as soon as the audio file is uploaded.
AfterUploadAudioOnly(f, pc) == "addDoc"

\* The step that follows a successful upload.
AfterUpload(f, pc) ==
    IF pc = "audio" /\ f.previewFile THEN "preview"
    ELSE IF pc \in {"audio", "preview"} /\ f.imageFile THEN "cover"
    ELSE "addDoc"

\* The catch block of handleAddBeat, and the setLoading(false) after it.
AddBeatCatch == [log |-> ErrAddBeat, alert |-> AlertAddBeat]

BeatFailed ==
    /\ last' = Failure("addBeat", AddBeatCatch)
    /\ beatPc' = "idle"
    /\ loading' = FALSE
    /\ req' = NoForm

\* uploadFile: uploadBytes, then getDownloadURL; either may be rejected.
UploadFile ==
    /\ beatPc \in {"audio", "preview", "cover"}
    /\ \/ /\ blobs' = blobs \cup {[beat |-> started, kind |-> beatPc]}
          /\ beatPc' = AfterUpload(req, beatPc)
          /\ last' = Quiet
          /\ UNCHANGED << loading, req >>
       \/ /\ BeatFailed
          /\ UNCHANGED blobs
       \/ /\ BeatFailed
          /\ blobs' = blobs \cup {[beat |-> started, kind |-> beatPc]}
    /\ submitted' = FALSE
    /\ UNCHANGED << beats, beatsView, started >>
    /\ UNCHANGED phoneVars

\* The document handleAddBeat creates.
NewBeatDoc(f) ==
    [hasId |-> FALSE,
     previewUrl |-> IF f.previewFile THEN "preview" ELSE "audio",
     imageUrl |-> IF f.imageFile THEN "cover" ELSE ""]

\* addDoc(collection(db, "beats"), ...)
AddBeatDoc ==
    /\ beatPc = "addDoc"
    /\ \/ /\ beats' = beats @@ (started :> NewBeatDoc(req))
          /\ beatPc' = "updateDoc"
          /\ last' = Quiet
          /\ UNCHANGED << loading, req >>
       \/ /\ BeatFailed
          /\ UNCHANGED beats
    /\ submitted' = FALSE
    /\ UNCHANGED << beatsView, blobs, started >>
    /\ UNCHANGED phoneVars

\* updateDoc(docRef, { id: docRef.id }), the form reset and setLoading(false).
UpdateBeatDoc ==
    /\ beatPc = "updateDoc"
    /\ \/ /\ started \in DOMAIN beats
          /\ beats' = [beats EXCEPT ![started].hasId = TRUE]
          /\ beatPc' = "idle"
          /\ loading' = FALSE
          /\ req' = NoForm
          /\ last' = Quiet
       \/ /\ BeatFailed
          /\ UNCHANGED beats
    /\ submitted' = FALSE
    /\ UNCHANGED << beatsView, blobs, started >>
    /\ UNCHANGED phoneVars

\* The catch block of handleDeleteBeat.
DeleteBeatCatch == [log |-> ErrDeleteBeat, alert |-> AlertDeleteBeat]

\* The delete button of a listed beat; confirmed is the answer to confirm().
HandleDeleteBeat(id, confirmed) ==
    /\ id \in DOMAIN beatsView
    /\ IF ~confirmed
       THEN UNCHANGED << beatVars, last >>
       ELSE /\ \/ /\ beats' = DeleteDoc(beats, id)
                  /\ last' = Quiet
               \/ /\ last' = Failure("deleteBeat", DeleteBeatCatch)
                  /\ UNCHANGED beats
            /\ submitted' = FALSE
            /\ req' = Running(req)
            /\ UNCHANGED << beatsView, beatPc, loading, blobs, started >>
    /\ UNCHANGED phoneVars

(***************************************************************************)
(* Specifications                                                          *)
(***************************************************************************)

\* The Settings screen, used by NumClients administrators.
Next ==
    \/ \E c \in Clients : Snapshot(c)
    \/ \E c \in Clients, s \in InputStrings : HandleAddPhoneNumber(c, s)
    \/ \E c \in Clients, i \in Ids : HandleToggleActive(c, i)
    \/ \E c \in Clients, w \in Writes : WriteApplied(c, w)
    \/ \E c \in Clients, w \in Writes : WriteRejected(c, w)
    \/ \E c \in Clients : Return(c)
    \/ \E c \in Clients, i \in Ids \cup {Null} : HandleDeletePhoneNumber(c, i)

Spec == Init /\ [][Next]_vars

\* The listener of a mounted Settings screen is called with the latest snapshot
\* after every change, and a handler whose writes have settled returns.
Fairness ==
    \A c \in Clients : WF_vars(Snapshot(c)) /\ WF_vars(Return(c))

FairSpec == Spec /\ Fairness

\* The Library screen.
BeatNext ==
    \/ BeatSnapshot
    \/ \E f \in BeatForms : HandleAddBeat(f)
    \/ UploadFile
    \/ AddBeatDoc
    \/ UpdateBeatDoc
    \/ \E i \in 1..MaxBeats, b \in BOOLEAN : HandleDeleteBeat(i, b)

SpecBeats == Init /\ [][BeatNext]_vars

\* Two administrators looking at the same two numbers, each activating another
\* one before the other's call is over.
Racers == {1, 2}

RaceDocs(flags) == [i \in Racers |-> [NewPhoneDoc(<<"7">>) EXCEPT !.isActive = flags[i]]]

RaceInit ==
    /\ \E flags \in [Racers -> BOOLEAN] :
          /\ docs = RaceDocs(flags)
          /\ phoneNumbers = [c \in Clients |-> RaceDocs(flags)]
    /\ nextId = 3
    /\ status = [c \in Clients |-> "idle"]
    /\ target = [c \in Clients |-> Null]
    /\ issued = [c \in Clients |-> {}]
    /\ pending = [c \in Clients |-> {}]
    /\ applied = [c \in Clients |-> {}]
    /\ existing = [c \in Clients |-> {}]
    /\ before = [c \in Clients |-> {}]
    /\ clean = [c \in Clients |-> FALSE]
    /\ serial = TRUE
    /\ ops = 2
    /\ beats = EmptyDocs
    /\ beatsView = EmptyDocs
    /\ beatPc = "idle"
    /\ loading = FALSE
    /\ req = NoForm
    /\ blobs = {}
    /\ started = 0
    /\ submitted = FALSE
    /\ last = Quiet

RaceNext ==
    \/ \E c \in Racers, i \in Racers :
          /\ \A c2 \in Racers \ {c} : target[c2] # i
          /\ HandleToggleActive(c, i)
    \/ \E c \in Racers, w \in Writes : WriteApplied(c, w)
    \/ \E c \in Racers, w \in Writes : WriteRejected(c, w)
    \/ \E c \in Clients : Snapshot(c)

SpecRace == RaceInit /\ [][RaceNext]_vars

(***************************************************************************)
(* Properties                                                              *)
(***************************************************************************)

RaceOver == \A c \in Racers : Settled(c) /\ before[c] = {}

RaceBoth == RaceOver /\ ActiveIds(docs) = Racers

\* The race has ended with exactly one item active.
RaceOne == RaceOver /\ Cardinality(ActiveIds(docs)) = 1

\* C4: when a write of an activate call is rejected the call logs the error,
\* and the writes it has already applied stay applied (nothing is rolled back,
\* nothing is written again): a failed call can leave no item active.
C4_NoRollback ==
    /\ [](\A c \in Clients :
            (status[c] \in {"caught", "failed"} /\ clean[c])
                => \A w \in applied[c] :
                      w.id \in DOMAIN docs /\ docs[w.id].isActive = w.isActive)
    /\ [][\A c \in Clients :
            (status[c] = "awaiting" /\ status'[c] \in {"caught", "failed"})
                => /\ last'.log = ErrToggle
                   /\ docs' = docs
                   /\ pending'[c] \subseteq pending[c]]_vars

\* One item was active before the call; the call failed and now none is active.
C4_Witness ==
    \E c \in Clients :
        /\ status[c] = "failed"
        /\ clean[c]
        /\ Cardinality(before[c]) = 1
        /\ \E w \in applied[c] : ~w.isActive
        /\ ActiveIds(docs) = {}

\* C5: an activate call whose target is not stored when it is issued never
\* succeeds, logs the error when it fails, applies no write that sets a flag to
\* true, and applies nothing at all when the stored collection was empty.
C5_MissingTargetFails ==
    /\ [](\A c \in Clients :
            (status[c] # "idle" /\ target[c] \notin existing[c])
                => /\ status[c] # "resolved"
                   /\ \A w \in applied[c] : ~w.isActive
                   /\ existing[c] = {} => applied[c] = {})
    /\ [][\A c \in Clients :
            (target[c] \notin existing[c] /\ status[c] = "awaiting"
               /\ status'[c] # "awaiting")
                => last'.log = ErrToggle /\ last'.rejected = "togglePhone"]_vars

\* activate on an empty stored collection has just failed, the collection is still empty.
C5_Witness ==
    \E c \in Clients :
        /\ status[c] = "failed"
        /\ existing[c] = {}
        /\ docs = EmptyDocs
        /\ last.log = ErrToggle

\* C6: an activate call issued for an id that was removed before ends failed:
\* the id stays removed, the write of the target is never applied, and once the
\* writes have settled the call has failed.
C6_RemovedTargetFails ==
    \A c \in Clients :
        (status[c] # "idle" /\ target[c] \notin existing[c])
            => /\ target[c] \notin DOMAIN docs
               /\ [id |-> target[c], isActive |-> TRUE] \notin applied[c]
               /\ pending[c] = {} => status[c] = "failed"

\* A number was removed, another one is still stored, and activating the
\* removed one has failed.
C6_Witness ==
    \E c \in Clients :
        /\ status[c] = "failed"
        /\ target[c] \notin existing[c]
        /\ existing[c] # {}

\* C7: the item a successful add has just created is stored inactive, with the
\* trimmed text as its number.
C7_AddedInactive ==
    last.created # Null
        => /\ last.created \in DOMAIN docs
           /\ ~docs[last.created].isActive
           /\ docs[last.created].number # <<>>
           /\ ~IsSpace(Head(docs[last.created].number))

\* An add has just succeeded while another item is active.
C7_Witness ==
    /\ last.created # Null
    /\ \E i \in DOMAIN docs : docs[i].isActive

\* C8: no step changes the number of a stored item; a step changes the active
\* flag of a stored item only by applying an updateDoc that an activate call
\* issued; add and remove leave every other stored item as it was.
C8_Frame ==
    [][/\ \A i \in DOMAIN docs \cap DOMAIN docs' :
             /\ docs'[i].number = docs[i].number
             /\ docs'[i].isActive # docs[i].isActive
                   => \E c \in Clients :
                         [id |-> i, isActive |-> docs'[i].isActive]
                             \in pending[c] \ pending'[c]
       /\ last'.created # Null
             => /\ DOMAIN docs' = DOMAIN docs \cup {last'.created}
                /\ \A i \in DOMAIN docs : docs'[i] = docs[i]
       /\ last'.removed # Null
             => /\ DOMAIN docs' = DOMAIN docs \ {last'.removed}
                /\ \A i \in DOMAIN docs' : docs'[i] = docs[i]]_vars

\* A remove has just succeeded and an active item is still stored.
C8_Witness ==
    /\ last.removed # Null
    /\ \E i \in DOMAIN docs : docs[i].isActive

\* C9, as stated: a step that saw a write rejected has logged the error and
\* shown a failure notice, and the write is not in flight again.
C9_AsClaimed ==
    last.rejected # ""
        => /\ last.log # ""
           /\ last.alert # ""
           /\ last.rejected = "addBeat" => beatPc = "idle"
           /\ \A c \in Clients : pending[c] \cap applied[c] = {}

\* C10: handleAddBeat is past its checks only with a signed-in user and all
\* required fields; a submit without them shows a notice, leaves the handler
\* idle, and uploads, creates and updates nothing.
C10_PreconditionBeforeWrites ==
    /\ [](beatPc # "idle" => Complete(req))
    /\ []((submitted /\ ~Complete(req))
            => /\ last.alert \in {AlertSignIn, AlertFields}
               /\ ~req.user => last.alert = AlertSignIn
               /\ beatPc = "idle"
               /\ ~loading)
    /\ [][(submitted' /\ ~Complete(req'))
            => UNCHANGED << beats, blobs, started, beatPc, loading >>]_vars

\* A submit with a user and a file but no producer name has just been refused,
\* after an earlier upload.
C10_Witness ==
    /\ submitted
    /\ req.user /\ req.audioFile /\ req.title /\ req.genre /\ ~req.producerName
    /\ last.alert = AlertFields
    /\ blobs # {}

\* C11: every change of a local view sets it to the full stored collection of
\* that moment (never to a mix of two snapshots), and if the stored collection
\* stops changing then every local view ends up equal to it and stays so.
C11_ViewFollowsStore ==
    /\ [][\A c \in Clients :
            phoneNumbers'[c] # phoneNumbers[c] => phoneNumbers'[c] = docs]_vars
    /\ <>[][docs' = docs]_vars => <>[](\A c \in Clients : phoneNumbers[c] = docs)

\* After an add, an activation and a remove, both views show the stored collection.
C11_Witness ==
    /\ \A c \in Clients : phoneNumbers[c] = docs
    /\ ActiveIds(docs) # {}
    /\ \E i \in 1..(nextId - 1) : i \notin DOMAIN docs

\* C12: no activate call issues a write that deactivates its own target; a call
\* on the only active item, issued from a view equal to the stored collection
\* and not interfered with, changes the stored collection with none of its
\* writes and, once they have all succeeded, has left every flag as it was
\* (so a second activate of the same target ends where the first one did).
C12_ActivateIdempotent ==
    /\ [](\A c \in Clients :
            /\ \A i \in DOMAIN phoneNumbers[c] :
                  [id |-> i, isActive |-> FALSE] \notin ToggleWrites(phoneNumbers[c], i)
            /\ [id |-> target[c], isActive |-> FALSE] \notin issued[c]
            /\ (status[c] = "resolved" /\ clean[c] /\ before[c] = {target[c]})
                  => /\ ActiveIds(docs) = before[c]
                     /\ DOMAIN docs = existing[c])
    /\ [][\A c \in Clients :
            (status[c] = "awaiting" /\ clean[c] /\ clean'[c]
               /\ before[c] = {target[c]} /\ pending'[c] # pending[c])
                => docs' = docs]_vars

\* The only active item of a two-item collection was activated again, the call
\* has succeeded, and the item is still the only active one.
C12_Witness ==
    \E c \in Clients :
        /\ status[c] = "resolved"
        /\ clean[c]
        /\ before[c] = {target[c]}
        /\ applied[c] = {[id |-> target[c], isActive |-> TRUE]}
        /\ Cardinality(DOMAIN docs) = 2
        /\ ActiveIds(docs) = {target[c]}

\* C13: handleAddBeat goes through audio upload, preview upload if a preview
\* file was given, cover upload if an image was given, document create and id
\* update in that order, each after the previous one succeeded; every stored
\* beat document has all the uploads its form asked for; a failed step ends the
\* handler without another upload or document write; and loading is true
\* exactly while the handler runs.
C13_StepsInOrder ==
    /\ [](loading <=> beatPc # "idle")
    /\ [](\A i \in DOMAIN beats :
            /\ [beat |-> i, kind |-> "audio"] \in blobs
            /\ beats[i].previewUrl = "preview" => [beat |-> i, kind |-> "preview"] \in blobs
            /\ beats[i].imageUrl = "cover" => [beat |-> i, kind |-> "cover"] \in blobs)
    /\ [][/\ (beatPc' # beatPc /\ last'.rejected = "")
               => \/ (beatPc = "idle" /\ beatPc' = "audio")
                  \/ (beatPc = "audio" /\ beatPc' = "preview" /\ req.previewFile)
                  \/ (beatPc = "audio" /\ beatPc' = "cover"
                        /\ ~req.previewFile /\ req.imageFile)
                  \/ (beatPc = "audio" /\ beatPc' = "addDoc"
                        /\ ~req.previewFile /\ ~req.imageFile)
                  \/ (beatPc = "preview" /\ beatPc' = "cover" /\ req.imageFile)
                  \/ (beatPc = "preview" /\ beatPc' = "addDoc" /\ ~req.imageFile)
                  \/ (beatPc = "cover" /\ beatPc' = "addDoc")
                  \/ (beatPc = "addDoc" /\ beatPc' = "updateDoc")
                  \/ (beatPc = "updateDoc" /\ beatPc' = "idle")
          /\ (beatPc' # beatPc /\ beatPc # "idle" /\ last'.rejected = "")
               => \/ [beat |-> started, kind |-> beatPc] \in blobs' \ blobs
                  \/ (beatPc = "addDoc" /\ started \in DOMAIN beats' \ DOMAIN beats)
                  \/ (beatPc = "updateDoc" /\ beats'[started].hasId
                        /\ ~beats[started].hasId)
          /\ last'.rejected = "addBeat"
               => (beatPc # "idle" /\ beatPc' = "idle" /\ ~loading' /\ beats' = beats)
          /\ beatPc = "idle"
               => /\ blobs' = blobs
                  /\ \A i \in DOMAIN beats' : i \in DOMAIN beats /\ beats'[i] = beats[i]]_vars

\* A run with a preview file and an image uploaded all three files and then
\* failed to create the document: nothing is stored and loading is false.
C13_Witness ==
    /\ last.rejected = "addBeat"
    /\ Cardinality(blobs) = 3
    /\ beats = EmptyDocs
    /\ beatPc = "idle"
    /\ ~loading

\* A run with a preview file and an image went through all five steps.
C13_Completed ==
    /\ Cardinality(blobs) = 3
    /\ started \in DOMAIN beats
    /\ beats[started].hasId
    /\ beats[started].previewUrl = "preview"
    /\ beats[started].imageUrl = "cover"
    /\ ~loading

====
